---- MODULE Spec2Model ----
(***************************************************************************)
(* Schedule reconciliation and notification dispatch of the PR-Review      *)
(* scheduler service (apps/scheduler/src/pr_review_scheduler), as written  *)
(* in docs/plans/2026-01-22-phase6-scheduler-service.md:                   *)
(*   scheduler.py            the APScheduler job registry                  *)
(*   sync.py                 sync_schedules, one reconciliation pass       *)
(*   main.py                 main, the polling loop, the signal handler    *)
(*   jobs/pr_notification.py run_notification_job                          *)
(*   services/database.py    schedule reads and the PR snapshot cache      *)
(*   services/github.py      the GitHub client                             *)
(*   services/email.py       the mail collaborator and the digest text     *)
(***************************************************************************)
EXTENDS Integers, Sequences, FiniteSets, TLC

VARIABLES
    store,      \* notification_schedules table: id -> row (owned by the web backend)
    jobs,       \* the scheduler's job store: sequence of [id, trigger]
    running,    \* scheduler.running
    main_pc,    \* position of main()
    poll_pc,    \* position of polling_loop()
    rec,        \* the frame of the sync_schedules call in progress
    runs,       \* executor worker -> frame of the run_notification_job call it executes
    cached,     \* cached_pull_requests table: schedule id -> set of committed rows
    fires,      \* number of timer fires processed so far
    changes,    \* number of out-of-band store writes so far
    passes,     \* number of reconciliation passes started so far
    stop_event, \* main.py _stop_event: set or not
    call        \* the library-level call made last by a direct caller, with its result

vars == <<store, jobs, running, main_pc, poll_pc, rec, runs, cached, fires, changes, passes,
          stop_event, call>>

(***************************************************************************)
(* Bounds of the model.                                                    *)
(***************************************************************************)
MaxStoreChanges == 2
MaxPasses == 2
MaxFires == 2
MaxWorkers == 2
MaxPRs == 2
MaxChecks == 2
MaxCount == 2
MaxMissed == 2

(***************************************************************************)
(* Values.                                                                 *)
(***************************************************************************)
Ids == {"A", "B"}
None == "None"
OwnerEmail == "owner@example.com"
OtherEmail == "dev@example.com"
Workers == 1..MaxWorkers

\* Cron expressions as the whitespace-separated fields of the stored string.
CronNine == <<"0", "9", "*", "*", "*">>
CronTen == <<"0", "10", "*", "*", "*">>
CronBad == <<"0", "9", "*", "*">>
Crons == {CronNine, CronTen, CronBad}

\* Stored credentials: the key they were encrypted under and the plaintext.
EncryptionKey == "k1"
PatGood == [key |-> "k1", plain |-> "ghp_token"]
PatBad == [key |-> "k0", plain |-> "ghp_token"]

\* schedule_repositories rows of each schedule (unique per schedule).
Repositories(id) ==
    IF id = "A"
    THEN << [organization |-> "org", repository |-> "r1"],
            [organization |-> "org", repository |-> "r2"] >>
    ELSE << [organization |-> "org", repository |-> "r1"] >>

NoRow == [exists |-> FALSE, is_active |-> FALSE, cron_expression |-> CronNine,
          github_pat |-> PatGood, user_email |-> None]
NewRow(cron) == [exists |-> TRUE, is_active |-> TRUE, cron_expression |-> cron,
                 github_pat |-> PatGood, user_email |-> OwnerEmail]

Range(s) == {s[i] : i \in DOMAIN s}
NoCall == [fn |-> "none"]
\* All orders in which the rows of a set can come back from a query without ORDER BY.
Orders(S) == {s \in [1..Cardinality(S) -> S] : Range(s) = S}

(***************************************************************************)
(* scheduler.py: the job registry.                                         *)
(***************************************************************************)
max_instances == 1

\* CronTrigger.from_crontab: five fields or ValueError.
CronParses(expr) == Len(expr) = 5
from_crontab(expr) ==
    [minute |-> expr[1], hour |-> expr[2], day |-> expr[3],
     month |-> expr[4], day_of_week |-> expr[5]]

JobIds(js) == {js[i].id : i \in DOMAIN js}
EntriesFor(js, id) == {i \in DOMAIN js : js[i].id = id}
\* scheduler.get_job(job_id) finds a job
HasJob(js, id) == EntriesFor(js, id) # {}
\* scheduler.remove_job(job_id)
store_remove_job(js, id) == SelectSeq(js, LAMBDA j : j.id # id)
\* scheduler.add_job(run_notification_job, trigger=trigger, id=schedule_id, args=[schedule_id])
\* the new job's next run time is computed from now: no run time of it has passed yet
store_add_job(js, id, trigger) == Append(js, [id |-> id, trigger |-> trigger, missed |-> 0])

\* remove_job(scheduler, job_id)
RemoveKeepsJob(js, id) == js
remove_job(js, id) == IF HasJob(js, id) THEN store_remove_job(js, id) ELSE js

\* add_notification_job, first half: "Remove existing job if present"
AnjKeepExisting(js, id) == js
AnjRemoveExisting(js, id) == IF HasJob(js, id) THEN store_remove_job(js, id) ELSE js

\* get_job(scheduler, job_id): the job, or None
get_job(js, id) ==
    IF HasJob(js, id)
    THEN js[CHOOSE i \in EntriesFor(js, id) : \A j \in EntriesFor(js, id) : i <= j]
    ELSE None

\* add_notification_job(scheduler, schedule_id, cron_expression) as one call:
\* the job store it leaves and whether it raised (ValueError from from_crontab)
AddUnlessPresent(js, id, cron) ==
    IF HasJob(js, id) THEN [jobs |-> js, raised |-> FALSE]
    ELSE IF CronParses(cron)
    THEN [jobs |-> store_add_job(js, id, from_crontab(cron)), raised |-> FALSE]
    ELSE [jobs |-> js, raised |-> TRUE]
add_notification_job(js, id, cron) ==
    IF CronParses(cron)
    THEN [jobs |-> store_add_job(AnjRemoveExisting(js, id), id, from_crontab(cron)),
          raised |-> FALSE]
    ELSE [jobs |-> AnjRemoveExisting(js, id), raised |-> TRUE]

\* scheduler.remove_job(job_id) raises JobLookupError for an id the store does not hold
JobLookupError(js, id) == ~HasJob(js, id)
\* remove_job(scheduler, job_id) raises when its call of scheduler.remove_job does:
\* the call is made under "if job:"
RemoveUnguarded(js, id) == JobLookupError(js, id)
remove_job_raises(js, id) == HasJob(js, id) /\ JobLookupError(js, id)

(***************************************************************************)
(* services/database.py: schedule reads.                                   *)
(***************************************************************************)
Decrypts(ct) == ct.key = EncryptionKey

\* get_all_schedule_ids()
get_all_schedule_ids(st) == {id \in Ids : st[id].exists}

\* the ids get_active_schedules() returns rows for: active, and the PAT decrypts
ActiveIdsUnchecked(st) == {id \in Ids : st[id].exists /\ st[id].is_active}
ActiveIds(st) == {id \in Ids : st[id].exists /\ st[id].is_active /\ Decrypts(st[id].github_pat)}
ScheduleEntry(st, id) == [id |-> id, cron_expression |-> st[id].cron_expression]
\* get_active_schedules(): the list, in any row order
get_active_schedules(st) ==
    {[k \in DOMAIN o |-> ScheduleEntry(st, o[k])] : o \in Orders(ActiveIds(st))}


\* get_schedule_by_id(schedule_id): the schedule dict, or None when the row is
\* missing or its PAT does not decrypt
LookupFindsUndecryptable(st, id) == st[id].exists
LookupFinds(st, id) == st[id].exists /\ Decrypts(st[id].github_pat)
\* history: which of its three exits get_schedule_by_id takes
LookupCase(st, id) ==
    IF ~st[id].exists THEN "no_row"
    ELSE IF ~Decrypts(st[id].github_pat) THEN "bad_credential" ELSE "found"

(***************************************************************************)
(* The web backend writes the schedule tables at any time.                 *)
(***************************************************************************)
IdleRec == [pc |-> "idle", owner |-> "none", active_schedules |-> <<>>,
            all_schedule_ids |-> {}, current_jobs |-> <<>>, i |-> 0,
            store_changed |-> FALSE, replacing |-> FALSE, removed |-> <<>>,
            after_error |-> FALSE]

\* history: a write that lands while a pass is between its first read and its return
NoteStoreChange(r) == IF r.pc = "idle" THEN r ELSE [r EXCEPT !.store_changed = TRUE]

WebWrite(id, row) ==
    /\ changes < MaxStoreChanges
    /\ store' = [store EXCEPT ![id] = row]
    /\ changes' = changes + 1
    /\ rec' = NoteStoreChange(rec)
    /\ UNCHANGED <<jobs, running, main_pc, poll_pc, runs, cached, fires, passes, stop_event, call>>

WebCreate(id) ==
    /\ ~store[id].exists
    /\ WebWrite(id, NewRow(CronNine))

WebDelete(id) ==
    /\ store[id].exists
    /\ WebWrite(id, NoRow)

WebSetActive(id) ==
    /\ store[id].exists
    /\ WebWrite(id, [store[id] EXCEPT !.is_active = ~store[id].is_active])

WebSetCron(id, cron) ==
    /\ store[id].exists
    /\ cron # store[id].cron_expression
    /\ WebWrite(id, [store[id] EXCEPT !.cron_expression = cron])

WebSetPat(id) ==
    /\ store[id].exists
    /\ WebWrite(id, [store[id] EXCEPT
                       !.github_pat = IF store[id].github_pat = PatGood THEN PatBad ELSE PatGood])

(***************************************************************************)
(* main.py: main() up to the running state.                                *)
(***************************************************************************)
\* start_scheduler(_scheduler)
MainStartThenPoll ==
    /\ main_pc = "init"
    /\ running' = TRUE
    /\ main_pc' = "ready"
    /\ poll_pc' = "loop"
    /\ UNCHANGED <<store, jobs, rec, runs, cached, fires, changes, passes, stop_event, call>>
MainStart ==
    /\ main_pc = "init"
    /\ running' = TRUE
    /\ main_pc' = "initial_sync"
    /\ UNCHANGED <<store, jobs, poll_pc, rec, runs, cached, fires, changes, passes, stop_event, call>>

\* poll_thread.start()
MainStartPolling ==
    /\ main_pc = "synced"
    /\ main_pc' = "ready"
    /\ poll_pc' = "loop"
    /\ UNCHANGED <<store, jobs, running, rec, runs, cached, fires, changes, passes, stop_event, call>>

\* while not _stop_event.is_set(): enter the loop body, or leave the loop and return
PollCheck ==
    /\ poll_pc = "loop"
    /\ poll_pc' = IF stop_event THEN "stopped" ELSE "sync"
    /\ UNCHANGED <<store, jobs, running, main_pc, rec, runs, cached, fires, changes, passes,
                   stop_event, call>>

\* _stop_event.wait(timeout=poll_interval) returns: the event is set or the interval is over
PollWake ==
    /\ poll_pc = "waiting"
    /\ poll_pc' = "loop"
    /\ UNCHANGED <<store, jobs, running, main_pc, rec, runs, cached, fires, changes, passes, stop_event, call>>

(***************************************************************************)
(* main.py: signal_handler, run by the main thread on SIGTERM or SIGINT,   *)
(* and the end of the process.                                             *)
(***************************************************************************)
\* _stop_event.set(); the handler runs on top of whatever main was doing, and as it
\* ends in sys.exit, a sync_schedules call of main that it interrupted never resumes
SignalSetStop ==
    /\ main_pc \in {"init", "initial_sync", "synced", "ready"}
    /\ stop_event' = TRUE
    /\ main_pc' = "handler_shutdown"
    /\ rec' = IF rec.owner = "main" THEN [rec EXCEPT !.pc = "interrupted"] ELSE rec
    /\ UNCHANGED <<store, jobs, running, poll_pc, runs, cached, fires, changes, passes, call>>

\* shutdown_scheduler(_scheduler, wait=True): if scheduler.running: scheduler.shutdown(wait=True);
\* the scheduler stops processing due jobs at once
SignalShutdown ==
    /\ main_pc = "handler_shutdown"
    /\ running' = FALSE
    /\ main_pc' = IF running THEN "handler_wait" ELSE "handler_exit"
    /\ UNCHANGED <<store, jobs, poll_pc, rec, runs, cached, fires, changes, passes,
                   stop_event, call>>

\* the job instances shutdown(wait) blocks on
WaitsForNone(rs) == {}
ShutdownWaitsFor(rs) == {w \in Workers : rs[w].pc # "idle"}

\* scheduler.shutdown(wait=True) returns once the executor has no running job
SignalWaitDone ==
    /\ main_pc = "handler_wait"
    /\ ShutdownWaitsFor(runs) = {}
    /\ main_pc' = "handler_exit"
    /\ UNCHANGED <<store, jobs, running, poll_pc, rec, runs, cached, fires, changes, passes,
                   stop_event, call>>

\* what the end of the process does to the polling thread, a daemon thread nobody joins
PollAtExit(pc) == IF pc \in {"off", "stopped"} THEN pc ELSE "killed"
RecAtExit(r) == IF r.pc = "idle" THEN r ELSE [r EXCEPT !.pc = "terminated"]

\* sys.exit(0): SystemExit reaches main's except clause, which sets the event and
\* finds the scheduler no longer running; main returns and the process ends
SignalExit ==
    /\ main_pc = "handler_exit"
    /\ main_pc' = "exited"
    /\ poll_pc' = PollAtExit(poll_pc)
    /\ rec' = RecAtExit(rec)
    /\ UNCHANGED <<store, jobs, running, runs, cached, fires, changes, passes, stop_event, call>>

(***************************************************************************)
(* sync.py: sync_schedules, one statement group per step.                  *)
(***************************************************************************)
\* the caller whose sync_schedules call may begin now
Caller ==
    IF main_pc = "initial_sync" THEN "main"
    ELSE IF poll_pc = "sync" THEN "poll" ELSE "none"

\* where the pass goes after the add loop has handled entry k-1
AfterAddSkipScheduled(r, k) ==
    LET todo == {j \in k..Len(r.active_schedules) :
                    \A c \in DOMAIN r.current_jobs : r.current_jobs[c] # r.active_schedules[j].id}
    IN  IF todo # {}
        THEN [r EXCEPT !.pc = "anj_existing", !.i = CHOOSE j \in todo : \A x \in todo : j <= x]
        ELSE IF r.current_jobs # <<>> THEN [r EXCEPT !.pc = "remove_loop", !.i = 1]
        ELSE [r EXCEPT !.pc = "done", !.i = 0]
AfterAdd(r, k) ==
    IF k <= Len(r.active_schedules) THEN [r EXCEPT !.pc = "anj_existing", !.i = k]
    ELSE IF r.current_jobs # <<>> THEN [r EXCEPT !.pc = "remove_loop", !.i = 1]
    ELSE [r EXCEPT !.pc = "done", !.i = 0]

AfterRemove(r, k) ==
    IF k <= Len(r.current_jobs) THEN [r EXCEPT !.i = k]
    ELSE [r EXCEPT !.pc = "done", !.i = 0]

\* the removal loop's test on one job id
IsDeletedOnly(job_id, all_ids, active_ids) == job_id \notin all_ids
IsRemovalTarget(job_id, all_ids, active_ids) ==
    job_id \notin all_ids \/ job_id \notin active_ids

\* an exception raised by add_notification_job inside the add loop
SyncOnAddError(r) == [r EXCEPT !.pc = "raised"]

\* active_schedules = get_active_schedules()
SyncReadActive ==
    /\ rec.pc = "idle"
    /\ Caller # "none"
    /\ passes < MaxPasses
    /\ \E lst \in get_active_schedules(store) :
         rec' = [IdleRec EXCEPT !.pc = "read_all", !.owner = Caller, !.active_schedules = lst,
                                !.after_error = rec.after_error]
    /\ passes' = passes + 1
    /\ UNCHANGED <<store, jobs, running, main_pc, poll_pc, runs, cached, fires, changes, stop_event, call>>

\* all_schedule_ids = get_all_schedule_ids(); current_jobs = {job.id: job ...}
SyncReadAll ==
    /\ rec.pc = "read_all"
    /\ rec' = AfterAdd([rec EXCEPT !.all_schedule_ids = get_all_schedule_ids(store),
                                   !.current_jobs = [k \in DOMAIN jobs |-> jobs[k].id]], 1)
    /\ UNCHANGED <<store, jobs, running, main_pc, poll_pc, runs, cached, fires, changes, passes, stop_event, call>>

\* add_notification_job: existing = scheduler.get_job(..); if existing: scheduler.remove_job(..)
SyncAnjExisting ==
    /\ rec.pc = "anj_existing"
    /\ LET id == rec.active_schedules[rec.i].id IN
         /\ jobs' = AnjRemoveExisting(jobs, id)
         \* history: whether an entry was removed, and the entry
         /\ rec' = [rec EXCEPT !.pc = "anj_add", !.replacing = HasJob(jobs, id),
                               !.removed = IF HasJob(jobs, id) THEN <<get_job(jobs, id)>>
                                           ELSE <<>>]
    /\ UNCHANGED <<store, running, main_pc, poll_pc, runs, cached, fires, changes, passes, stop_event, call>>

\* add_notification_job: trigger = CronTrigger.from_crontab(..); scheduler.add_job(..)
SyncAnjAdd ==
    /\ rec.pc = "anj_add"
    /\ LET s == rec.active_schedules[rec.i] IN
         IF CronParses(s.cron_expression)
         THEN /\ jobs' = store_add_job(jobs, s.id, from_crontab(s.cron_expression))
              /\ rec' = AfterAdd([rec EXCEPT !.replacing = FALSE, !.removed = <<>>], rec.i + 1)
         ELSE /\ jobs' = jobs
              /\ rec' = SyncOnAddError(rec)
    /\ UNCHANGED <<store, running, main_pc, poll_pc, runs, cached, fires, changes, passes, stop_event, call>>

\* for job_id in current_jobs: remove_job when deleted or deactivated
SyncRemove ==
    /\ rec.pc = "remove_loop"
    /\ LET job_id == rec.current_jobs[rec.i]
           active_schedule_ids == {rec.active_schedules[k].id : k \in DOMAIN rec.active_schedules}
       IN  /\ jobs' = IF IsRemovalTarget(job_id, rec.all_schedule_ids, active_schedule_ids)
                      THEN remove_job(jobs, job_id)
                      ELSE jobs
           /\ rec' = AfterRemove(rec, rec.i + 1)
    /\ UNCHANGED <<store, running, main_pc, poll_pc, runs, cached, fires, changes, passes, stop_event, call>>

\* polling_loop after its sync_schedules call: "except Exception" logs whatever the
\* call raised, and the loop goes on to _stop_event.wait
PollDiesOnError(outcome) == IF outcome = "raised" THEN "crashed" ELSE "waiting"
PollAfterPass(outcome) == "waiting"

\* sync_schedules returns to main (an exception leaves main) or to polling_loop
SyncReturn ==
    /\ rec.pc \in {"done", "raised"}
    /\ IF rec.owner = "main"
       THEN /\ main_pc' = IF rec.pc = "done" THEN "synced" ELSE "crashed"
            /\ poll_pc' = poll_pc
       ELSE /\ main_pc' = main_pc
            /\ poll_pc' = PollAfterPass(rec.pc)
    \* history: whether the pass that returned had raised
    /\ rec' = [IdleRec EXCEPT !.after_error = (rec.pc = "raised")]
    /\ UNCHANGED <<store, jobs, running, runs, cached, fires, changes, passes, stop_event, call>>

(***************************************************************************)
(* services/github.py and services/email.py: what the collaborators        *)
(* hand back to run_notification_job.                                      *)
(***************************************************************************)
\* the open pull requests one fetch returns: n items of that repository
PullRequests(repo, n) ==
    [k \in 1..n |-> [organization |-> repo.organization,
                     repository |-> repo.repository, number |-> k]]

\* full_name = f"{org}/{repo_name}"
full_name(repo) == repo.organization \o "/" \o repo.repository

\* repo_pr_counts[full_name] = len(prs): a dict keeps the place of a key it already holds
DictSet(d, key, value) ==
    IF \E k \in DOMAIN d : d[k].key = key
    THEN [k \in DOMAIN d |-> IF d[k].key = key THEN [key |-> key, value |-> value] ELSE d[k]]
    ELSE Append(d, [key |-> key, value |-> value])

(***************************************************************************)
(* services/database.py: cache_pull_requests, one database transaction.    *)
(***************************************************************************)
\* the cached_pull_requests row of one pull request (its uuid aside)
CachedRow(pr) == [organization |-> pr.organization, repository |-> pr.repository,
                  pr_number |-> pr.number]
\* the schedule's rows inside the transaction after the delete and the first k inserts
TxRows(prs, k) == {CachedRow(prs[j]) : j \in 1..k}
\* session.commit(): the transaction's rows become the table's
AfterCommit(old_rows, tx_rows) == tx_rows
\* session.rollback(): the table keeps the rows it had
AfterPartialWrite(old_rows, tx_rows) == tx_rows
AfterRollback(old_rows, tx_rows) == old_rows

(***************************************************************************)
(* The scheduler's executor: timer fires and job instances.                *)
(***************************************************************************)
IdleRun == [pc |-> "idle", id |-> None, seq |-> 0, lookup |-> "none",
            user_email |-> None, repositories |-> <<>>, i |-> 0,
            all_prs |-> <<>>, repo_pr_counts |-> <<>>,
            fetched |-> <<>>, cache_calls |-> 0, cache_result |-> "none",
            rows_before |-> {}, mail_calls |-> 0, mail_result |-> "none",
            mail_to |-> None, dropped |-> 0, run_times |-> 0, covered |-> 0]

Busy(rs) == {w \in Workers : rs[w].pc # "idle"}
InstancesOf(rs, id) == {w \in Workers : rs[w].pc # "idle" /\ rs[w].id = id}

\* job_defaults max_instances: a fire is submitted only below the limit
AlwaysSubmit(rs, id) == TRUE
CanSubmit(rs, id) == Cardinality(InstancesOf(rs, id)) < max_instances

\* job_defaults coalesce
coalesce == TRUE

\* the run times of a job that are due when the scheduler gets to process it: the
\* ones it missed, or the one that has just arrived
DueTimes(js, id) == IF get_job(js, id).missed = 0 THEN 1 ELSE get_job(js, id).missed
\* the run times handed to the executor with one submission
RunTimesAll(due) == due
RunTimes(due) == IF coalesce THEN 1 ELSE due
\* the scheduler moves the job's next run time past now
AfterProcessed(js, id) ==
    [k \in DOMAIN js |-> IF js[k].id = id THEN [js[k] EXCEPT !.missed = 0] ELSE js[k]]

\* a run time of the job passes and the scheduler does not get to process the job
\* (the process is suspended, the scheduler thread is held up)
TimerMiss(id) ==
    /\ HasJob(jobs, id)
    /\ get_job(jobs, id).missed < MaxMissed
    /\ jobs' = [k \in DOMAIN jobs |->
                 IF jobs[k].id = id THEN [jobs[k] EXCEPT !.missed = @ + 1] ELSE jobs[k]]
    /\ UNCHANGED <<store, running, main_pc, poll_pc, rec, runs, cached, fires, changes, passes,
                   stop_event, call>>

\* a due job is submitted to a free worker
FireStart(id) ==
    /\ running /\ main_pc # "crashed"
    /\ fires < MaxFires
    /\ HasJob(jobs, id)
    /\ CanSubmit(runs, id)
    /\ Busy(runs) # Workers
    /\ LET w == CHOOSE x \in Workers \ Busy(runs) : \A y \in Workers \ Busy(runs) : x <= y IN
         runs' = [runs EXCEPT ![w] = [IdleRun EXCEPT !.pc = "load", !.id = id, !.seq = fires + 1,
                                                     !.run_times = RunTimes(DueTimes(jobs, id)),
                                                     !.covered = DueTimes(jobs, id)]]
    /\ jobs' = AfterProcessed(jobs, id)
    /\ fires' = fires + 1
    /\ UNCHANGED <<store, running, main_pc, poll_pc, rec, cached, changes, passes, stop_event, call>>

\* job_defaults misfire_grace_time: the scheduler gets to a job whose run time lies
\* further back than the grace time; the run time is reported as missed and the job
\* function is not called
FireTooLate(id) ==
    /\ running /\ main_pc # "crashed"
    /\ fires < MaxFires
    /\ HasJob(jobs, id)
    /\ get_job(jobs, id).missed > 0
    /\ CanSubmit(runs, id)
    /\ jobs' = AfterProcessed(jobs, id)
    /\ fires' = fires + 1
    /\ UNCHANGED <<store, running, main_pc, poll_pc, rec, runs, cached, changes, passes,
                   stop_event, call>>

\* a due job at its instance limit: the fire is dropped with a warning
FireSkip(id) ==
    /\ running /\ main_pc # "crashed"
    /\ fires < MaxFires
    /\ HasJob(jobs, id)
    /\ ~CanSubmit(runs, id)
    /\ fires' = fires + 1
    \* history: the warning logged against the instance that is still running
    /\ runs' = [w \in Workers |->
                 IF w \in InstancesOf(runs, id) THEN [runs[w] EXCEPT !.dropped = @ + 1]
                 ELSE runs[w]]
    /\ jobs' = AfterProcessed(jobs, id)
    /\ UNCHANGED <<store, running, main_pc, poll_pc, rec, cached, changes, passes, stop_event, call>>

\* the frame a worker holds once the job function has returned or raised: a call for
\* the next run time of the submission, or none after the last one
NextRunTime(r) ==
    IF r.run_times > 1
    THEN [IdleRun EXCEPT !.pc = "load", !.id = r.id, !.seq = r.seq,
                         !.run_times = r.run_times - 1, !.covered = r.covered]
    ELSE IdleRun

\* the job function has returned or raised: the executor goes on to the next run time
\* of the submission, or releases the instance
RunFinish(w) ==
    /\ runs[w].pc \in {"returned", "raised"}
    /\ runs' = [runs EXCEPT ![w] = NextRunTime(runs[w])]
    /\ UNCHANGED <<store, jobs, running, main_pc, poll_pc, rec, cached, fires, changes, passes, stop_event, call>>

(***************************************************************************)
(* jobs/pr_notification.py: run_notification_job.                          *)
(***************************************************************************)
\* where the run goes once targets 1..k-1 are fetched
AfterFetch(r, k) ==
    IF k <= Len(r.repositories) THEN [r EXCEPT !.pc = "fetch", !.i = k]
    ELSE [r EXCEPT !.pc = "cache", !.i = 0]

\* schedule = get_schedule_by_id(schedule_id); if not schedule: return
RunLoad(w) ==
    /\ runs[w].pc = "load"
    /\ LET id == runs[w].id IN
         runs' = [runs EXCEPT ![w] =
                    IF LookupFinds(store, id)
                    THEN AfterFetch([@ EXCEPT !.lookup = LookupCase(store, id),
                                              !.user_email = store[id].user_email,
                                              !.repositories = Repositories(id)], 1)
                    ELSE [@ EXCEPT !.pc = "returned", !.lookup = LookupCase(store, id)]]
    /\ UNCHANGED <<store, jobs, running, main_pc, poll_pc, rec, cached, fires, changes, passes, stop_event, call>>

\* if prs: all_prs.extend(prs); repo_pr_counts[full_name] = len(prs)
CountEveryFetch(r, repo, prs) ==
    [r EXCEPT !.all_prs = @ \o prs,
              !.repo_pr_counts = DictSet(@, full_name(repo), Len(prs))]
RecordFetch(r, repo, prs) ==
    IF prs # <<>>
    THEN [r EXCEPT !.all_prs = @ \o prs,
                   !.repo_pr_counts = DictSet(@, full_name(repo), Len(prs))]
    ELSE r

\* except Exception around one target's fetch: log, go on with the next target
OnFetchError(r) == AfterFetch(r, r.i + 1)

\* one iteration of "for repo in repositories" whose fetch returns a list
\* (empty also when the fetcher caught a GitHub error itself)
RunFetch(w) ==
    /\ runs[w].pc = "fetch"
    /\ \E n \in 0..MaxPRs :
         LET r == runs[w]
             repo == r.repositories[r.i]
             prs == PullRequests(repo, n)
         IN  runs' = [runs EXCEPT ![w] =
                        AfterFetch(RecordFetch([r EXCEPT !.fetched = Append(@, n)], repo, prs),
                                   r.i + 1)]
    /\ UNCHANGED <<store, jobs, running, main_pc, poll_pc, rec, cached, fires, changes, passes, stop_event, call>>

\* one iteration whose fetch raises into the job
RunFetchRaises(w) ==
    /\ runs[w].pc = "fetch"
    /\ runs' = [runs EXCEPT ![w] = OnFetchError([@ EXCEPT !.fetched = Append(@, -1)])]
    /\ UNCHANGED <<store, jobs, running, main_pc, poll_pc, rec, cached, fires, changes, passes, stop_event, call>>

\* except Exception around cache_pull_requests: log, go on to the email
CacheErrorEscapes(r) == [r EXCEPT !.pc = "raised", !.cache_result = "failed"]
CacheErrorEndsRun(r) == [r EXCEPT !.pc = "returned", !.cache_result = "failed"]
OnCacheError(r) == [r EXCEPT !.pc = "mail", !.cache_result = "failed"]

\* if all_prs: cache_pull_requests(schedule_id, all_prs), the transaction commits
RunCacheCommitUnfiltered(w) ==
    /\ runs[w].pc = "cache"
    /\ runs[w].all_prs # <<>>
    /\ LET r == runs[w] IN
         /\ cached' = [id \in Ids |-> IF id = r.id THEN TxRows(r.all_prs, Len(r.all_prs)) ELSE {}]
         /\ runs' = [runs EXCEPT ![w] = [r EXCEPT !.pc = "mail", !.cache_calls = @ + 1,
                                                  !.cache_result = "ok",
                                                  !.rows_before = cached[r.id]]]
    /\ UNCHANGED <<store, jobs, running, main_pc, poll_pc, rec, fires, changes, passes,
                   stop_event, call>>
RunCacheCommit(w) ==
    /\ runs[w].pc = "cache"
    /\ runs[w].all_prs # <<>>
    /\ LET r == runs[w] IN
         /\ cached' = [cached EXCEPT ![r.id] =
                         AfterCommit(@, TxRows(r.all_prs, Len(r.all_prs)))]
         /\ runs' = [runs EXCEPT ![w] = [r EXCEPT !.pc = "mail", !.cache_calls = @ + 1,
                                                  !.cache_result = "ok",
                                                  !.rows_before = cached[r.id]]]
    /\ UNCHANGED <<store, jobs, running, main_pc, poll_pc, rec, fires, changes, passes, stop_event, call>>

\* the transaction fails at the delete (k = 0), at an insert or at the commit:
\* rollback, and cache_pull_requests raises into the job
RunCacheFails(w) ==
    /\ runs[w].pc = "cache"
    /\ runs[w].all_prs # <<>>
    /\ \E k \in 0..Len(runs[w].all_prs) :
         LET r == runs[w] IN
           /\ cached' = [cached EXCEPT ![r.id] = AfterRollback(@, TxRows(r.all_prs, k))]
           /\ runs' = [runs EXCEPT ![w] =
                         OnCacheError([r EXCEPT !.cache_calls = @ + 1,
                                                !.rows_before = cached[r.id]])]
    /\ UNCHANGED <<store, jobs, running, main_pc, poll_pc, rec, fires, changes, passes, stop_event, call>>

\* nothing fetched: no cache write
RunCacheEmptyWrite(w) ==
    /\ runs[w].pc = "cache"
    /\ runs[w].all_prs = <<>>
    /\ cached' = [cached EXCEPT ![runs[w].id] = {}]
    /\ runs' = [runs EXCEPT ![w] = [@ EXCEPT !.pc = "mail", !.cache_calls = @ + 1,
                                             !.cache_result = "ok"]]
    /\ UNCHANGED <<store, jobs, running, main_pc, poll_pc, rec, fires, changes, passes,
                   stop_event, call>>
RunCacheNone(w) ==
    /\ runs[w].pc = "cache"
    /\ runs[w].all_prs = <<>>
    /\ runs' = [runs EXCEPT ![w] = [@ EXCEPT !.pc = "mail"]]
    /\ UNCHANGED <<store, jobs, running, main_pc, poll_pc, rec, cached, fires, changes, passes, stop_event, call>>

\* if all_prs and user_email
SendsWithoutEmail(r) == r.all_prs # <<>>
ShouldSend(r) == r.all_prs # <<>> /\ r.user_email # None

\* send_notification_email returns True or False, or the try block raises: each is
\* logged and the job goes on to its last line
RunMailSend(w) ==
    /\ runs[w].pc = "mail"
    /\ ShouldSend(runs[w])
    /\ \E outcome \in {"sent", "failed", "raised"} :
         runs' = [runs EXCEPT ![w] = [@ EXCEPT !.pc = "returned", !.mail_calls = @ + 1,
                                               !.mail_result = outcome,
                                               !.mail_to = runs[w].user_email]]
    /\ UNCHANGED <<store, jobs, running, main_pc, poll_pc, rec, cached, fires, changes, passes, stop_event, call>>

\* no PRs, or PRs and no email on file: a log line and no send
RunMailSkip(w) ==
    /\ runs[w].pc = "mail"
    /\ ~ShouldSend(runs[w])
    /\ runs' = [runs EXCEPT ![w] = [@ EXCEPT !.pc = "returned"]]
    /\ UNCHANGED <<store, jobs, running, main_pc, poll_pc, rec, cached, fires, changes, passes, stop_event, call>>

(***************************************************************************)
(* services/github.py: the GitHub client.                                  *)
(***************************************************************************)
\* one element of the "check_runs" array of a commit
CheckRuns ==
    {[status |-> "queued", conclusion |-> None],
     [status |-> "in_progress", conclusion |-> None]}
    \cup {[status |-> "completed", conclusion |-> c] :
            c \in {"success", "failure", "cancelled", "timed_out", "neutral"}}
CheckRunLists == UNION {[1..n -> CheckRuns] : n \in 0..MaxChecks}

\* what an HTTP request comes to: a parsed 2xx body, a non-2xx status
\* (raise_for_status: 401, 403, 404 ...) or a failure of the transport
HttpErrors == {"HTTPStatusError", "ConnectError"}
Exceptions == HttpErrors \cup {"KeyError"}
ChecksResponses ==
    {[kind |-> "ok", check_runs |-> l] : l \in CheckRunLists}
    \cup {[kind |-> e, check_runs |-> <<>>] : e \in HttpErrors}

\* the loop over check_runs and the three returns after it
has_pending(check_runs) ==
    \E k \in DOMAIN check_runs : check_runs[k].status # "completed"
has_failure(check_runs) ==
    \E k \in DOMAIN check_runs :
        /\ check_runs[k].status = "completed"
        /\ check_runs[k].conclusion \in {"failure", "cancelled", "timed_out"}
ChecksStatus(check_runs) ==
    IF check_runs = <<>> THEN "pending"
    ELSE IF has_failure(check_runs) THEN "fail"
    ELSE IF has_pending(check_runs) THEN "pending"
    ELSE "pass"

\* get_pull_request_checks: both except clauses return "pending"
get_pull_request_checks(resp) ==
    IF resp.kind = "ok" THEN ChecksStatus(resp.check_runs) ELSE "pending"

\* the check-runs responses the pull requests of one listing can meet
ListedChecks ==
    {[kind |-> "ok", check_runs |-> <<>>],
     [kind |-> "ok", check_runs |-> << [status |-> "completed", conclusion |-> "success"] >>],
     [kind |-> "ok", check_runs |-> << [status |-> "completed", conclusion |-> "failure"] >>]}
    \cup {[kind |-> e, check_runs |-> <<>>] : e \in HttpErrors}
\* the response to GET /repos/{org}/{repo}/pulls; "KeyError" stands for a 2xx body
\* that lacks a field the loop reads
PullsResponses ==
    {[kind |-> "ok", checks |-> c] : c \in UNION {[1..n -> ListedChecks] : n \in 0..MaxPRs}}
    \cup {[kind |-> e, checks |-> <<>>] : e \in Exceptions}

\* result.append({...}) for the k-th pull request of the listing
PullRequestDict(organization, repository, k, checks_status) ==
    [number |-> k, checks_status |-> checks_status,
     organization |-> organization, repository |-> repository]

\* except httpx.HTTPStatusError / except Exception: which exceptions of the try
\* block end in "return []"
\* (every exception of the model is a subclass of Exception)
CatchesStatusErrorOnly(exc) == exc = "HTTPStatusError"
FetcherCatches(exc) == exc = "HTTPStatusError" \/ exc \in Exceptions

\* get_repository_pull_requests(access_token, organization, repository)
get_repository_pull_requests(repo, resp) ==
    IF resp.kind = "ok"
    THEN [raised |-> FALSE,
          result |-> [k \in DOMAIN resp.checks |->
                        PullRequestDict(repo.organization, repo.repository, k,
                                        get_pull_request_checks(resp.checks[k]))]]
    ELSE IF FetcherCatches(resp.kind) THEN [raised |-> FALSE, result |-> <<>>]
    ELSE [raised |-> TRUE, result |-> <<>>]

(***************************************************************************)
(* services/email.py: format_pr_summary_email.                             *)
(***************************************************************************)
ApplicationUrl == "http://localhost:5173"

\* f"- {repo_name}: {pr_count} open PR{'s' if pr_count != 1 else ''}"
AlwaysPlural(pr_count) == "s"
PluralSuffix(pr_count) == IF pr_count # 1 THEN "s" ELSE ""
SummaryLine(repo_name, pr_count) ==
    "- " \o repo_name \o ": " \o ToString(pr_count) \o " open PR" \o PluralSuffix(pr_count)

\* repositories.items(), in insertion order
SummaryLines(repositories) ==
    [k \in DOMAIN repositories |-> SummaryLine(repositories[k].key, repositories[k].value)]

\* the (subject, body) pair; the body as the lines that "\n".join puts together
format_pr_summary_email(repositories, application_url) ==
    [subject |-> "[PR-Review] Open Pull Requests Summary",
     body_lines |->
        << "You have open pull requests that need attention.", "", "Repository Summary:" >>
        \o SummaryLines(repositories)
        \o << "", "View details: " \o application_url \o "/", "", "---",
              "This is an automated message from PR-Review.",
              "To manage your notification settings, visit " \o application_url \o "/settings" >>]

(***************************************************************************)
(* Direct calls of the library-level functions, as the unit tests make     *)
(* them: any arguments, one call at a time.                                *)
(***************************************************************************)
\* a dict of repository name -> count, as the list of its items in insertion order
RepoNames == {full_name(Repositories("A")[k]) : k \in DOMAIN Repositories("A")}
CountMaps ==
    {m \in UNION {[1..n -> [key : RepoNames, value : 0..MaxCount]] : n \in 0..Cardinality(RepoNames)} :
        \A j, k \in DOMAIN m : j # k => m[j].key # m[k].key}

CallChecks ==
    /\ \E resp \in ChecksResponses :
         call' = [fn |-> "get_pull_request_checks", response |-> resp,
                  result |-> get_pull_request_checks(resp)]
    /\ UNCHANGED <<store, jobs, running, main_pc, poll_pc, rec, runs, cached, fires,
                   changes, passes, stop_event>>

CallFetch ==
    /\ \E repo \in Range(Repositories("A")), resp \in PullsResponses :
         LET out == get_repository_pull_requests(repo, resp) IN
           call' = [fn |-> "get_repository_pull_requests", repo |-> repo, response |-> resp,
                    raised |-> out.raised, result |-> out.result]
    /\ UNCHANGED <<store, jobs, running, main_pc, poll_pc, rec, runs, cached, fires,
                   changes, passes, stop_event>>

CallFormat ==
    /\ \E repositories \in CountMaps :
         call' = [fn |-> "format_pr_summary_email", repositories |-> repositories,
                  result |-> format_pr_summary_email(repositories, ApplicationUrl)]
    /\ UNCHANGED <<store, jobs, running, main_pc, poll_pc, rec, runs, cached, fires,
                   changes, passes, stop_event>>

CallAdd ==
    /\ \E id \in Ids, cron \in Crons :
         LET out == add_notification_job(jobs, id, cron) IN
           /\ jobs' = out.jobs
           /\ call' = [fn |-> "add_notification_job", id |-> id, cron |-> cron,
                       before |-> jobs, raised |-> out.raised]
    /\ UNCHANGED <<store, running, main_pc, poll_pc, rec, runs, cached, fires,
                   changes, passes, stop_event>>

CallRemove ==
    /\ \E id \in Ids :
         /\ jobs' = remove_job(jobs, id)
         /\ call' = [fn |-> "remove_job", id |-> id, before |-> jobs,
                     raised |-> remove_job_raises(jobs, id)]
    /\ UNCHANGED <<store, running, main_pc, poll_pc, rec, runs, cached, fires,
                   changes, passes, stop_event>>

(***************************************************************************)
(* Specifications.                                                         *)
(***************************************************************************)
IdleRuns == [w \in Workers |-> IdleRun]

\* The reconciler: main() and the polling loop over a store the web backend keeps
\* writing. At the start every schedule is stored and active and nothing is scheduled.
Init ==
    /\ store = [id \in Ids |-> NewRow(CronNine)]
    /\ jobs = <<>>
    /\ running = FALSE
    /\ main_pc = "init"
    /\ poll_pc = "off"
    /\ rec = IdleRec
    /\ runs = IdleRuns
    /\ cached = [id \in Ids |-> {}]
    /\ fires = 0
    /\ changes = 0
    /\ passes = 0
    /\ stop_event = FALSE
    /\ call = NoCall

WebNext ==
    \E id \in Ids :
        \/ WebCreate(id)
        \/ WebDelete(id)
        \/ WebSetActive(id)
        \/ WebSetPat(id)
        \/ \E cron \in Crons : WebSetCron(id, cron)

SyncNext ==
    \/ SyncReadActive
    \/ SyncReadAll
    \/ SyncAnjExisting
    \/ SyncAnjAdd
    \/ SyncRemove
    \/ SyncReturn

JobNext ==
    \/ \E id \in Ids : FireStart(id) \/ FireSkip(id)
    \/ \E w \in Workers :
        \/ RunLoad(w)
        \/ RunFetch(w)
        \/ RunFetchRaises(w)
        \/ RunCacheCommit(w)
        \/ RunCacheFails(w)
        \/ RunCacheNone(w)
        \/ RunMailSend(w)
        \/ RunMailSkip(w)
        \/ RunFinish(w)

Next ==
    \/ MainStart
    \/ MainStartPolling
    \/ PollCheck
    \/ PollWake
    \/ WebNext
    \/ SyncNext

Spec == Init /\ [][Next]_vars

\* The executor on its own: the scheduler is running with a job per schedule, as a
\* completed pass leaves it; B's row is as it was, A's row is as the web backend may
\* since have left it (deleted, re-encrypted under another key, owner without email).
StoredRows == {NewRow(CronNine), [NewRow(CronNine) EXCEPT !.user_email = None],
               [NewRow(CronNine) EXCEPT !.github_pat = PatBad], NoRow}

JobInit ==
    /\ \E row \in StoredRows :
         store = [id \in Ids |-> IF id = "A" THEN row
                                 ELSE [NewRow(CronNine) EXCEPT !.user_email = OtherEmail]]
    /\ jobs = store_add_job(store_add_job(<<>>, "A", from_crontab(CronNine)),
                            "B", from_crontab(CronNine))
    /\ running = TRUE
    /\ main_pc = "ready"
    /\ poll_pc = "waiting"
    /\ rec = IdleRec
    /\ runs = IdleRuns
    /\ cached = [id \in Ids |-> {}]
    /\ fires = 0
    /\ changes = 0
    /\ passes = 0
    /\ stop_event = FALSE
    /\ call = NoCall

JobSpec == JobInit /\ [][JobNext]_vars

\* The whole service with one schedule stored, from start to a termination signal.
StopInit ==
    /\ store = [id \in Ids |-> IF id = "A" THEN NewRow(CronNine) ELSE NoRow]
    /\ jobs = <<>>
    /\ running = FALSE
    /\ main_pc = "init"
    /\ poll_pc = "off"
    /\ rec = IdleRec
    /\ runs = IdleRuns
    /\ cached = [id \in Ids |-> {}]
    /\ fires = 0
    /\ changes = 0
    /\ passes = 0
    /\ stop_event = FALSE
    /\ call = NoCall

SignalNext ==
    \/ SignalSetStop
    \/ SignalShutdown
    \/ SignalWaitDone
    \/ SignalExit

StopNext ==
    \/ MainStart
    \/ MainStartPolling
    \/ PollCheck
    \/ PollWake
    \/ SyncNext
    \/ JobNext
    \/ SignalNext

StopSpec == StopInit /\ [][StopNext]_vars

\* The service in operation with one schedule stored: main() has started the
\* scheduler, the initial pass has registered the schedule and the polling thread is
\* at the top of its loop; run times come up, some are missed, and the web backend
\* deactivates, reactivates and deletes.
TimerInit ==
    /\ store = [id \in Ids |-> IF id = "B" THEN NewRow(CronNine) ELSE NoRow]
    /\ jobs = store_add_job(<<>>, "B", from_crontab(CronNine))
    /\ running = TRUE
    /\ main_pc = "ready"
    /\ poll_pc = "loop"
    /\ rec = IdleRec
    /\ runs = IdleRuns
    /\ cached = [id \in Ids |-> {}]
    /\ fires = 0
    /\ changes = 0
    /\ passes = 0
    /\ stop_event = FALSE
    /\ call = NoCall

\* the writes that take a schedule out of the active set or bring it back
TimerWebNext ==
    \E id \in Ids : WebSetActive(id) \/ WebDelete(id)

TimerNext ==
    \/ PollCheck
    \/ PollWake
    \/ SyncNext
    \/ TimerWebNext
    \/ \E id \in Ids : TimerMiss(id) \/ FireTooLate(id)
    \/ JobNext

TimerSpec == TimerInit /\ [][TimerNext]_vars

\* The polling loop of the service in operation, with a web backend that rewrites
\* cron expressions and a termination signal that may arrive at any time.
LoopWebNext ==
    \E id \in Ids, cron \in Crons : WebSetCron(id, cron)

LoopNext ==
    \/ PollCheck
    \/ PollWake
    \/ SyncNext
    \/ LoopWebNext
    \/ SignalNext

LoopSpec == TimerInit /\ [][LoopNext]_vars

\* The functions on their own, called directly on a scheduler that holds no job yet.
CallNext ==
    \/ CallChecks
    \/ CallFetch
    \/ CallFormat
    \/ CallAdd
    \/ CallRemove

CallSpec == Init /\ [][CallNext]_vars

(***************************************************************************)
(* Properties of the job registry and of a reconciliation pass (Spec).     *)
(***************************************************************************)
\* the ids of the schedules a pass read as active
ReadActiveIds(r) == {r.active_schedules[k].id : k \in DOMAIN r.active_schedules}
StoredActive(st) == {id \in Ids : st[id].exists /\ st[id].is_active}

\* C1: in every reachable state the job registry holds at most one entry per
\* schedule id, whatever the interleaving of add_notification_job, remove_job and
\* reconciliation passes.
C1_OneEntryPerId == \A id \in Ids : Cardinality(EntriesFor(jobs, id)) <= 1

\* a second pass has replaced the entries of both schedules, one with a changed cron
C1_Witness ==
    /\ rec.pc = "done" /\ passes = 2
    /\ Len(rec.current_jobs) = 2
    /\ JobIds(jobs) = Ids
    /\ \E k \in DOMAIN jobs : jobs[k].trigger = from_crontab(CronTen)

\* C2: while add_notification_job replaces the entry of an id that had one, the
\* registry holds exactly one entry for that id in every state between its steps
\* (never zero, never two).
C2_ReplaceIsAtomic ==
    (rec.pc = "anj_add" /\ rec.replacing)
        => Cardinality(EntriesFor(jobs, rec.active_schedules[rec.i].id)) = 1

\* C3: a pass over a store that does not change during it, in which every active
\* schedule has a parseable cron expression and a decryptable credential, finishes
\* without error and leaves the registry's key set equal to the set of active ids.
AllActiveUsable(st) ==
    \A id \in StoredActive(st) :
        CronParses(st[id].cron_expression) /\ Decrypts(st[id].github_pat)

C3_PassMatchesActive ==
    (rec.pc \in {"done", "raised"} /\ ~rec.store_changed /\ AllActiveUsable(store))
        => (rec.pc = "done" /\ JobIds(jobs) = StoredActive(store))

\* the registry held timers for A and B; B was deactivated; the pass leaves only A
C3_Witness ==
    /\ rec.pc = "done" /\ ~rec.store_changed /\ AllActiveUsable(store)
    /\ Range(rec.current_jobs) = {"A", "B"}
    /\ store["B"].exists /\ ~store["B"].is_active
    /\ JobIds(jobs) = {"A"}

\* C4: a pass in which one active schedule has an unparseable cron expression still
\* finishes without an error leaving it, has added or replaced the timer of every
\* other active schedule and has removed the timers of deleted and deactivated ones.
UnparseableRead(r) ==
    {k \in DOMAIN r.active_schedules : ~CronParses(r.active_schedules[k].cron_expression)}

C4_BadCronIsolated ==
    (rec.pc \in {"done", "raised"} /\ ~rec.store_changed
        /\ Cardinality(UnparseableRead(rec)) = 1)
        => /\ rec.pc = "done"
           /\ \A k \in DOMAIN rec.active_schedules \ UnparseableRead(rec) :
                \E j \in DOMAIN jobs :
                    /\ jobs[j].id = rec.active_schedules[k].id
                    /\ jobs[j].trigger = from_crontab(rec.active_schedules[k].cron_expression)
           /\ JobIds(jobs) \subseteq ReadActiveIds(rec)

(***************************************************************************)
(* Properties of the executor and of run_notification_job (JobSpec).       *)
(***************************************************************************)
InFlight == {w \in Workers : runs[w].pc # "idle"}
\* the aggregate count map as a set of (name, count) pairs
CountPairs(r) == {<<r.repo_pr_counts[k].key, r.repo_pr_counts[k].value>> : k \in DOMAIN r.repo_pr_counts}
\* what the fetches of this run returned, target by target
FetchedPairs(r) == {<<full_name(r.repositories[k]), r.fetched[k]>> : k \in {j \in DOMAIN r.fetched : r.fetched[j] > 0}}

\* C5: at most one run per schedule id is in progress at any time; a run starts only
\* in a fire, and only for an id that has no run in progress, so a fire that overlaps
\* a run of the same id is dropped: not run in parallel and not started later without
\* a fire of its own. Runs of different ids overlap.
C5_OneInstance == \A id \in Ids : Cardinality(InstancesOf(runs, id)) <= 1
C5_StartsOnlyOnFire ==
    \A w \in Workers :
        (runs[w].pc = "idle" /\ runs'[w].pc # "idle")
            => /\ fires' = fires + 1
               /\ InstancesOf(runs, runs'[w].id) = {}
               /\ \A v \in Workers \ {w} : runs'[v] = runs[v]
C5_OverlapSkipped == []C5_OneInstance /\ [][C5_StartsOnlyOnFire]_vars

\* a second fire of A came while A's first run was fetching, and was dropped
C5_Witness ==
    \E w \in InFlight :
        /\ runs[w].id = "A" /\ runs[w].pc = "fetch" /\ runs[w].seq = 1
        /\ runs[w].dropped = 1 /\ fires = 2
        /\ InFlight = {w}

C7_CountsMatchFetches ==
    \A w \in InFlight :
        /\ CountPairs(runs[w]) = FetchedPairs(runs[w])
        /\ Len(runs[w].repo_pr_counts) = Cardinality(FetchedPairs(runs[w]))
        /\ (runs[w].pc = "returned" /\ runs[w].repo_pr_counts # <<>> /\ runs[w].user_email # None)
              => runs[w].mail_calls = 1

\* two targets: the first fetch returned 2 items, the second failed; the digest
\* with the first target only was sent
C7_Witness ==
    \E w \in InFlight :
        /\ runs[w].pc = "returned"
        /\ runs[w].fetched = <<MaxPRs, -1>>
        /\ runs[w].repo_pr_counts = << [key |-> "org/r1", value |-> MaxPRs] >>
        /\ runs[w].mail_result = "sent"

\* C8: a run that has returned called the mail collaborator once if its aggregate
\* map is non-empty and the schedule has an owner email, and not at all otherwise;
\* at no point has a run called it more than once.
C8_MailOnceOrNever ==
    \A w \in InFlight :
        /\ runs[w].mail_calls <= 1
        /\ runs[w].pc = "returned"
              => runs[w].mail_calls =
                    IF runs[w].repo_pr_counts # <<>> /\ runs[w].user_email # None THEN 1 ELSE 0

\* a send that failed was not tried again; another run found PRs and no email
C8_Witness ==
    \E w \in InFlight, v \in InFlight :
        /\ runs[w].pc = "returned" /\ runs[w].mail_result = "failed" /\ runs[w].mail_calls = 1
        /\ runs[v].pc = "returned" /\ runs[v].repo_pr_counts # <<>>
        /\ runs[v].user_email = None /\ runs[v].mail_calls = 0

\* C9: a run whose schedule row is missing, or whose credential does not decrypt,
\* returns normally having fetched nothing, mailed nothing and written no cache.
C9_AbortIsQuiet ==
    \A w \in InFlight :
        runs[w].lookup \in {"no_row", "bad_credential"}
            => /\ runs[w].pc = "returned"
               /\ runs[w].fetched = <<>> /\ runs[w].all_prs = <<>>
               /\ runs[w].mail_calls = 0
               /\ runs[w].cache_calls = 0

\* after A's run stopped at its undecryptable credential, a later run of B cached
\* its PRs and sent its digest
C9_Witness ==
    \E w \in InFlight, v \in InFlight :
        /\ runs[w].id = "A" /\ runs[w].lookup = "bad_credential" /\ runs[w].seq = 1
        /\ runs[v].id = "B" /\ runs[v].seq = 2 /\ runs[v].pc = "returned"
        /\ runs[v].cache_result = "ok" /\ runs[v].mail_result = "sent"

\* C10: once cache_pull_requests has finished, the schedule's rows are the new item
\* set if the write succeeded and the rows from before the call if it failed.
C10_CacheAllOrNothing ==
    \A w \in InFlight :
        /\ runs[w].cache_result = "ok"
              => cached[runs[w].id] = TxRows(runs[w].all_prs, Len(runs[w].all_prs))
        /\ runs[w].cache_result = "failed"
              => cached[runs[w].id] = runs[w].rows_before

\* a write of a different item set failed over the rows an earlier run had cached
C10_Witness ==
    \E w \in InFlight :
        /\ runs[w].cache_result = "failed"
        /\ runs[w].rows_before # {}
        /\ runs[w].rows_before # TxRows(runs[w].all_prs, Len(runs[w].all_prs))
        /\ cached[runs[w].id] = runs[w].rows_before

\* C11: the cache step and the notify step fail independently: a run whose cache
\* write failed still called the mail collaborator when it had PRs and an owner
\* email, and a run whose send failed still made its cache write, whose committed
\* rows stay in the table.
C11_CacheAndMailIndependent ==
    \A w \in InFlight :
        runs[w].pc \in {"returned", "raised"} =>
            /\ (runs[w].cache_result = "failed" /\ runs[w].user_email # None)
                  => runs[w].mail_calls = 1
            /\ runs[w].mail_result \in {"failed", "raised"}
                  => /\ runs[w].cache_calls = 1
                     /\ runs[w].cache_result = "ok"
                          => cached[runs[w].id] = TxRows(runs[w].all_prs, Len(runs[w].all_prs))

\* one run's cache write failed and its digest was sent; another run's send raised
\* after its cache write had committed
C11_Witness ==
    \E w \in InFlight, v \in InFlight :
        /\ runs[w].pc = "returned" /\ runs[w].cache_result = "failed"
        /\ runs[w].mail_result = "sent"
        /\ runs[v].pc = "returned" /\ runs[v].cache_result = "ok"
        /\ runs[v].mail_result = "raised" /\ cached[runs[v].id] # {}

\* C24: a run for schedule s affects s only: a step changes the cached rows of a
\* schedule only if it is the cache step of a run of that schedule, no step of a run
\* changes the job store, and a run sends mail to nobody but the owner of its own
\* schedule, whatever fails in it and however runs of different schedules interleave.
C24_RowsChangeOnlyInOwnRun ==
    /\ jobs' = jobs
    /\ \A s \in Ids :
          cached'[s] # cached[s] =>
              \E w \in Workers : /\ runs[w].id = s /\ runs[w].pc = "cache"
                                 /\ runs'[w].pc = "mail"
                                 /\ \A v \in Workers \ {w} : runs'[v] = runs[v]
C24_MailToOwnOwner ==
    \A w \in InFlight :
        runs[w].mail_calls > 0 => runs[w].mail_to = store[runs[w].id].user_email
C24_RunAffectsOwnScheduleOnly ==
    []C24_MailToOwnOwner /\ [][C24_RowsChangeOnlyInOwnRun]_vars

\* B's run has cached its rows and mailed B's owner; A's run, started while B's was
\* in flight, has since replaced A's rows and mailed A's owner
C24_Witness ==
    \E w \in InFlight, v \in InFlight :
        /\ runs[w].id = "B" /\ runs[w].seq = 1 /\ runs[w].pc = "returned"
        /\ runs[w].mail_to = OtherEmail
        /\ runs[v].id = "A" /\ runs[v].seq = 2 /\ runs[v].pc = "returned"
        /\ runs[v].cache_result = "ok" /\ runs[v].mail_to = OwnerEmail
        /\ cached["B"] = TxRows(runs[w].all_prs, Len(runs[w].all_prs))
        /\ cached["B"] # {}

\* C27: a run that fetched nothing makes no cache write: while it is in flight the
\* schedule's rows stay as they were, and it returns with rows that an earlier run
\* wrote still in the table.
C27_NoWriteStep ==
    \A w \in Workers :
        (runs[w].pc # "idle" /\ runs'[w].pc # "idle" /\ runs'[w].all_prs = <<>>
           /\ runs'[w].pc \in {"cache", "mail", "returned"})
            => /\ cached'[runs[w].id] = cached[runs[w].id]
               /\ runs'[w].cache_calls = 0
C27_EmptyRunKeepsSnapshot == [][C27_NoWriteStep]_vars

\* A's first run cached rows; its second run fetched nothing from either repository
\* and has returned: the rows of the first run are still there
C27_Witness ==
    \E w \in InFlight :
        /\ runs[w].id = "A" /\ runs[w].seq = 2 /\ runs[w].pc = "returned"
        /\ Len(runs[w].fetched) = 2 /\ runs[w].all_prs = <<>>
        /\ runs[w].cache_calls = 0
        /\ cached["A"] # {}

\* C17: the first pass is main's own: it begins once the scheduler has been started,
\* and it has completed before the polling thread is started and before main
\* reports the service as running.
C17_InitialSyncFirst ==
    /\ rec.owner = "main" => (running /\ main_pc = "initial_sync" /\ passes = 1)
    /\ passes >= 1 => running
    /\ (poll_pc # "off" \/ main_pc \in {"synced", "ready"})
          => (passes >= 1 /\ rec.owner # "main")
    /\ poll_pc # "off" => main_pc = "ready"

\* main has made its pass, both schedules have their timers, the polling thread has
\* just been started and has not begun a pass of its own
C17_Witness ==
    /\ main_pc = "ready" /\ poll_pc = "loop"
    /\ passes = 1 /\ rec.pc = "idle"
    /\ JobIds(jobs) = Ids

\* C20: a pass adds or replaces the timer of every active schedule it read, whether
\* or not the schedule already had one: when a pass over an unchanged store has
\* completed, every active schedule with a usable credential has exactly one entry,
\* and every entry of an active schedule is bound to the expression now stored.
C20_PassBindsStoredCron ==
    (rec.pc = "done" /\ ~rec.store_changed) =>
        /\ \A id \in ActiveIds(store) : Cardinality(EntriesFor(jobs, id)) = 1
        /\ \A k \in DOMAIN jobs :
              LET t == jobs[k].trigger IN
                jobs[k].id \in StoredActive(store)
                  => <<t.minute, t.hour, t.day, t.month, t.day_of_week>>
                        = store[jobs[k].id].cron_expression

\* A had a nine o'clock timer; its expression was changed to ten o'clock between two
\* passes, and the second pass has rebound the timer
C20_Witness ==
    /\ rec.pc = "done" /\ ~rec.store_changed /\ passes = 2
    /\ \E c \in DOMAIN rec.current_jobs : rec.current_jobs[c] = "A"
    /\ store["A"].is_active /\ store["A"].cron_expression = CronTen
    /\ \E k \in DOMAIN jobs : jobs[k].id = "A" /\ jobs[k].trigger.hour = "10"
    /\ \A k \in DOMAIN jobs : jobs[k].id = "A" => jobs[k].trigger.hour # "9"

\* C22: in a pass, also one whose two store reads saw different store contents, no
\* id of the active list the pass read is a removal target (absent from the ids or
\* from the active ids the pass read), and when the pass has completed every key of
\* the registry is among the ids the pass read.
C22_AddAndRemoveExclusive ==
    /\ rec.pc \in {"anj_existing", "anj_add", "remove_loop", "done"} =>
          \A id \in ReadActiveIds(rec) : id \in rec.all_schedule_ids
    /\ rec.pc = "done" => JobIds(jobs) \subseteq rec.all_schedule_ids

\* C26: an active schedule whose credential the pass's read cannot decrypt is left
\* out of the pass's active list, which is the list the read would return had the
\* schedule been deactivated; the pass creates no timer for it, and a pass that runs
\* to its end has removed the timer it had, while every other active schedule has
\* its timer.
Undecryptable(st) == {id \in StoredActive(st) : ~Decrypts(st[id].github_pat)}
Deactivated(st, S) == [id \in Ids |-> IF id \in S THEN [st[id] EXCEPT !.is_active = FALSE] ELSE st[id]]

C26_UndecryptableAsDeactivated ==
    /\ get_active_schedules(store) = get_active_schedules(Deactivated(store, Undecryptable(store)))
    /\ (rec.pc # "idle" /\ ~rec.store_changed) =>
          ReadActiveIds(rec) \cap Undecryptable(store) = {}
    /\ (rec.pc \notin {"idle", "read_all"} /\ ~rec.store_changed) =>
          JobIds(jobs) \cap Undecryptable(store) \subseteq Range(rec.current_jobs)
    /\ (rec.pc = "done" /\ ~rec.store_changed) =>
          /\ JobIds(jobs) \cap Undecryptable(store) = {}
          /\ StoredActive(store) \ Undecryptable(store) \subseteq JobIds(jobs)

\* A had a timer; its credential was then stored under another key; the next pass
\* has removed A's timer and kept B's
C26_Witness ==
    /\ rec.pc = "done" /\ ~rec.store_changed
    /\ Undecryptable(store) = {"A"}
    /\ "A" \in Range(rec.current_jobs)
    /\ JobIds(jobs) = {"B"}

(***************************************************************************)
(* Properties of the functions called directly (CallSpec).                 *)
(***************************************************************************)
\* C12: the status derived from the check runs of a commit is "pending" if any check
\* is not yet complete (even when a completed check has failed), otherwise "fail" if
\* any completed check ended in failure, cancellation or timeout, otherwise "pending"
\* if there are no checks, otherwise "pass".
C12_PendingBeforeFail ==
    (call.fn = "get_pull_request_checks" /\ call.response.kind = "ok") =>
        LET check_runs == call.response.check_runs
            incomplete == \E k \in DOMAIN check_runs : check_runs[k].status # "completed"
            failed == \E k \in DOMAIN check_runs :
                         /\ check_runs[k].status = "completed"
                         /\ check_runs[k].conclusion \in {"failure", "cancelled", "timed_out"}
        IN  call.result = IF incomplete THEN "pending"
                          ELSE IF failed THEN "fail"
                          ELSE IF check_runs = <<>> THEN "pending"
                          ELSE "pass"

\* C13 as stated: get_repository_pull_requests never raises, and whenever a request
\* it makes for the repository meets a transport or authorization error it returns
\* an empty list.
FetchMetError(c) ==
    \/ c.response.kind # "ok"
    \/ \E k \in DOMAIN c.response.checks : c.response.checks[k].kind # "ok"

C13_AnyErrorGivesEmptyList ==
    call.fn = "get_repository_pull_requests" =>
        /\ ~call.raised
        /\ FetchMetError(call) => call.result = <<>>

\* C13 as amended: get_repository_pull_requests never raises; it returns an empty list
\* whenever the request for the pull request list fails; when that request succeeds
\* it returns one item per listed pull request, and an item whose check-runs request
\* failed carries the status "pending".
C13_FetcherNeverRaises ==
    call.fn = "get_repository_pull_requests" =>
        /\ ~call.raised
        /\ call.response.kind # "ok" => call.result = <<>>
        /\ call.response.kind = "ok" =>
              /\ Len(call.result) = Len(call.response.checks)
              /\ \A k \in DOMAIN call.result :
                    /\ call.result[k].number = k
                    /\ call.response.checks[k].kind # "ok"
                          => call.result[k].checks_status = "pending"

\* the connection to GitHub failed: an empty list came back and nothing was raised
C13_Witness ==
    /\ call.fn = "get_repository_pull_requests"
    /\ call.response.kind = "ConnectError"
    /\ ~call.raised /\ call.result = <<>>

\* C14: right after add_notification_job(id, e) returns for a valid five-field e,
\* get_job(id) is an entry bound to e and it is the only entry of id, whether or
\* not id had an entry (bound to any expression) before the call.
C14_AddThenGet ==
    (call.fn = "add_notification_job" /\ CronParses(call.cron)) =>
        /\ ~call.raised
        /\ Cardinality(EntriesFor(jobs, call.id)) = 1
        /\ HasJob(jobs, call.id)
        /\ LET t == get_job(jobs, call.id).trigger IN
             <<t.minute, t.hour, t.day, t.month, t.day_of_week>> = call.cron

\* A was scheduled at nine; a second call with the ten o'clock expression has returned
C14_Witness ==
    /\ call.fn = "add_notification_job" /\ call.id = "A" /\ call.cron = CronTen
    /\ HasJob(call.before, "A")
    /\ get_job(call.before, "A").trigger.hour = "9"
    /\ get_job(jobs, "A").trigger.hour = "10"
    /\ HasJob(jobs, "B")

\* C15: remove_job for an id that has no entry does not raise and leaves the job
\* store as it was.
C15_RemoveAbsentIsNoOp ==
    (call.fn = "remove_job" /\ ~HasJob(call.before, call.id)) =>
        /\ ~call.raised
        /\ jobs = call.before

\* remove_job("A") was called on a store that holds a job for B only
C15_Witness ==
    /\ call.fn = "remove_job" /\ call.id = "A"
    /\ JobIds(call.before) = {"B"}
    /\ JobIds(jobs) = {"B"}

\* C16: the body has one summary line per entry of the count map, in the map's
\* insertion order, reading "1 open PR" for a count of one and "N open PRs" for
\* every other count N.
C16_OneLinePerRepository ==
    call.fn = "format_pr_summary_email" =>
        LET m == call.repositories
            body == call.result.body_lines
        IN  /\ Len(body) = Len(m) + 9
            /\ \A k \in DOMAIN m :
                  body[3 + k] = "- " \o m[k].key \o ": " \o ToString(m[k].value)
                                \o (IF m[k].value = 1 THEN " open PR" ELSE " open PRs")

\* org/r2 was inserted first with one PR, org/r1 second with two
C16_Witness ==
    /\ call.fn = "format_pr_summary_email"
    /\ Len(call.repositories) = 2
    /\ call.result.body_lines[4] = "- org/r2: 1 open PR"
    /\ call.result.body_lines[5] = "- org/r1: 2 open PRs"

\* C25: a call of add_notification_job that fails because the expression does not
\* parse leaves the job store exactly as it was before the call: an entry the id
\* already had is still there with its trigger.
C25_FailedAddKeepsRegistry ==
    (call.fn = "add_notification_job" /\ ~CronParses(call.cron)) =>
        /\ call.raised
        /\ jobs = call.before

(***************************************************************************)
(* Properties of the shutdown on a termination signal (StopSpec).          *)
(***************************************************************************)
\* C18: on a termination signal the scheduler is shut down with wait=True: once the
\* handler is past the shutdown, and when the process has ended, the scheduler is
\* stopped and no run of run_notification_job is still in flight.
C18_ExitWaitsForRuns ==
    main_pc \in {"handler_exit", "exited"} =>
        /\ ~running
        /\ stop_event
        /\ \A w \in Workers : runs[w].pc = "idle"

\* the signal came while a run was fetching: the scheduler is stopped and the
\* handler is held in the shutdown until the run is over
C18_Witness ==
    /\ main_pc = "handler_wait" /\ stop_event /\ ~running
    /\ \E w \in Workers : runs[w].pc = "fetch" /\ runs[w].id = "A"

\* C19: on a termination signal the polling loop finishes the pass it is in the
\* middle of and leaves its loop before the process ends: no pass of the loop is
\* cut short by the end of the process.
C19_NoPassCutShort ==
    main_pc = "exited" => ~(rec.owner = "poll" /\ rec.pc = "terminated")

(***************************************************************************)
(* Convergence of the registry under the reconciler (Spec).                *)
(***************************************************************************)
\* the registry holds exactly the active schedule ids, one entry each, bound to the
\* stored cron expression
RegistryMatches ==
    /\ JobIds(jobs) = StoredActive(store)
    /\ \A k \in DOMAIN jobs :
         /\ EntriesFor(jobs, jobs[k].id) = {k}
         /\ CronParses(store[jobs[k].id].cron_expression)
         /\ jobs[k].trigger = from_crontab(store[jobs[k].id].cron_expression)
\* the store has seen its last write, every active schedule is usable, and no pass
\* that a write raced with is still in progress
StoreSettled ==
    /\ changes = MaxStoreChanges
    /\ AllActiveUsable(store)
    /\ ~rec.store_changed

\* C28: once the store has stopped changing with every active schedule usable, the
\* passes that raced with writes are over and the registry has come to hold exactly
\* the active ids under their stored cron expressions, it holds them from then on.
C28_SettledRegistryStays == [][(StoreSettled /\ RegistryMatches) => RegistryMatches']_vars

(***************************************************************************)
(* Properties of the timers of the service in operation (TimerSpec).       *)
(***************************************************************************)
\* a worker starts a call of the job function
StartsCall(w) == runs'[w].pc = "load" /\ runs[w].pc # "load"

\* C23: however many run times of a job were missed, the submission that catches up
\* calls the job function once: every instance a worker holds has one run time, and a
\* call of the job function starts only in the step that processes the due job, never
\* as the follow-up of the call before it.
C23_OneCallPerSubmission == \A w \in Workers : runs[w].pc # "idle" => runs[w].run_times = 1
C23_CallStartsOnFire == \A w \in Workers : StartsCall(w) => fires' = fires + 1
C23_MissedFiresCoalesced == []C23_OneCallPerSubmission /\ [][C23_CallStartsOnFire]_vars

\* two run times were missed, one run caught up for both and has returned
C23_Witness ==
    \E w \in Workers :
        /\ runs[w].covered = 2
        /\ runs[w].pc = "returned"
        /\ fires = 1

\* the schedule the add loop of the pass is at
AddLoopSchedule(r) == r.active_schedules[r.i]
\* the pass is about to put back, under the expression it had, the entry it removed
ReplacesUnchanged(r) ==
    /\ r.pc = "anj_add"
    /\ Len(r.removed) = 1
    /\ CronParses(AddLoopSchedule(r).cron_expression)
    /\ r.removed[1].trigger = from_crontab(AddLoopSchedule(r).cron_expression)

\* C21: a pass that replaces an entry by one with the same cron expression leaves the
\* run times of the schedule that are due as they were: the entry it adds has as many
\* unprocessed run times as the entry it removed, no fewer (a fire lost) and no more
\* (a fire duplicated).
C21_ReplaceKeepsDueFire ==
    [][(ReplacesUnchanged(rec) /\ rec'.pc # "anj_add") =>
          get_job(jobs', AddLoopSchedule(rec).id).missed = rec.removed[1].missed]_vars

\* a worker starts an instance of the job of some schedule
StartsRun(w) == runs[w].pc = "idle" /\ runs'[w].pc # "idle"
\* the removal loop of the pass handles a job id it finds deleted or deactivated
RemovesTimer(r) ==
    /\ r.pc = "remove_loop"
    /\ IsRemovalTarget(r.current_jobs[r.i], r.all_schedule_ids, ReadActiveIds(r))

\* C29: a run for a schedule id starts only in a state in which the registry holds an
\* entry for the id, and the removal loop of a pass leaves no entry for an id it found
\* deleted or deactivated: from then on no run for the id starts until an entry is
\* added again. Nothing in a removal touches the workers: a run in flight goes on.
C29_StartsOnlyWhileRegistered ==
    \A w \in Workers : StartsRun(w) => HasJob(jobs, runs'[w].id)
C29_RemovalEvicts ==
    (RemovesTimer(rec) /\ (rec'.i # rec.i \/ rec'.pc = "done")) =>
        /\ ~HasJob(jobs', rec.current_jobs[rec.i])
        /\ runs' = runs
C29_NoRunWithoutTimer == [][C29_StartsOnlyWhileRegistered /\ C29_RemovalEvicts]_vars

\* B was deactivated and a pass has removed its timer while a run for B is in flight,
\* with open PRs fetched and about to send its notification
C29_Witness ==
    /\ ~store["B"].is_active
    /\ ~HasJob(jobs, "B")
    /\ rec.pc = "done"
    /\ \E w \in Workers : runs[w].id = "B" /\ runs[w].pc = "mail" /\ ShouldSend(runs[w])

(***************************************************************************)
(* Properties of the polling loop (LoopSpec).                              *)
(***************************************************************************)
\* the sync_schedules call of the polling loop comes back with an exception
PollPassRaises == rec.pc = "raised" /\ rec.owner = "poll" /\ rec'.pc = "idle"

\* C30: when the sync_schedules call of the polling loop raises, the loop goes on to
\* its wait; the polling thread never dies of an exception, and it leaves the loop
\* only once the stop event is set: after the wait it is back at the loop test, which
\* starts the next pass unless the event is set.
C30_ErrorLeadsToWait == PollPassRaises => poll_pc' = "waiting"
C30_WaitLeadsToTest ==
    (poll_pc = "waiting" /\ poll_pc' \notin {"waiting", "killed"}) => poll_pc' = "loop"
C30_TestStartsPass ==
    (poll_pc = "loop" /\ poll_pc' \notin {"loop", "killed"}) =>
        poll_pc' = IF stop_event THEN "stopped" ELSE "sync"
C30_LoopLeftOnStopOnly ==
    /\ poll_pc # "crashed"
    /\ poll_pc = "stopped" => stop_event
C30_LoopSurvivesError ==
    /\ []C30_LoopLeftOnStopOnly
    /\ [][C30_ErrorLeadsToWait /\ C30_WaitLeadsToTest /\ C30_TestStartsPass]_vars

\* a pass of the polling loop has raised, and the loop has started the pass after it
C30_Witness ==
    /\ rec.after_error
    /\ rec.owner = "poll"
    /\ rec.pc = "read_all"
    /\ passes = 2

====
